---- MODULE Spec2Model ----
(***************************************************************************)
(* Model of the delivery bot (src/bot.py): the manifest parser, the        *)
(* employee directory, the per-requester session, the conversation         *)
(* dispatch configured in main(), and the route builder.                   *)
(*                                                                         *)
(* cmd_start, cmd_list and cmd_delete only send a message and are left    *)
(* out; got_floor_manual is registered with no handler in main() and is    *)
(* never called.                                                           *)
(*                                                                         *)
(* A text message is a sequence of lines, a line is a sequence of tokens   *)
(* (maximal runs of non-blank characters), a token is a string of the      *)
(* vocabulary below.  Python dicts are records: a key the code may leave   *)
(* out ("floor", "room") is a field the record may lack.                   *)
(***************************************************************************)
EXTENDS Integers, Sequences, FiniteSets, TLC

\* ------------------------------------------------------------------ bounds
MaxLines == 3      \* lines of a manifest
MaxRoute == 3      \* length of a list handed to optimize_route on its own
MaxManifest == 3   \* entries of a parsed manifest handed to the classification on its own
MaxIdx == 2        \* largest |index| of a mark-delivered callback

\* --------------------------------------------------------------- vocabulary
\* the requesters; every per-requester variable is indexed by Users.  Two
\* requesters share nothing but the directory: u1 is the one that runs
\* sessions, and u2 edits the directory beside it in SpecShared
Users == {"u1", "u2"}
SessionUsers == {"u1"}

\* the characters of each token of the vocabulary (TLC cannot index a string)
Chars(tok) ==
  CASE tok = "ivanov" -> <<"i", "v", "a", "n", "o", "v">>
    [] tok = "Petrov" -> <<"P", "e", "t", "r", "o", "v">>
    [] tok = "petrov" -> <<"p", "e", "t", "r", "o", "v">>
    [] tok = "Ivanov" -> <<"I", "v", "a", "n", "o", "v">>
    [] tok = "sidorov" -> <<"s", "i", "d", "o", "r", "o", "v">>
    [] tok = "-"      -> <<"-">>
    [] tok = "7"      -> <<"7">>
    [] tok = "101"    -> <<"1", "0", "1">>
    [] tok = "102"    -> <<"1", "0", "2">>
    [] tok = "103"    -> <<"1", "0", "3">>
    [] tok = "1.5"    -> <<"1", ".", "5">>
    [] tok = "1.12"   -> <<"1", ".", "1", "2">>
    [] tok = "2.5"    -> <<"2", ".", "5">>
    [] tok = "2.x"    -> <<"2", ".", "x">>
    [] tok = "1.100"  -> <<"1", ".", "1", "0", "0">>
    [] tok = "2.100"  -> <<"2", ".", "1", "0", "0">>
    [] tok = "7.47"   -> <<"7", ".", "4", "7">>
    [] OTHER          -> <<>>

DigitChars == {"0", "1", "2", "3", "4", "5", "6", "7", "8", "9"}
LowerChars == {"i", "v", "a", "n", "o", "p", "e", "t", "r", "x", "s", "d"}
UpperChars == {"I", "P", "S"}
DashChars == {"-"}

DigitVal(c) ==
  CASE c = "0" -> 0 [] c = "1" -> 1 [] c = "2" -> 2 [] c = "3" -> 3
    [] c = "4" -> 4 [] c = "5" -> 5 [] c = "6" -> 6 [] c = "7" -> 7
    [] c = "8" -> 8 [] c = "9" -> 9

\* str.lower() and str.capitalize() on the words of the vocabulary
LowerWord(w) ==
  CASE w = "Petrov" -> "petrov"
    [] w = "Ivanov" -> "ivanov"
    [] w = "Sidorov" -> "sidorov"
    [] OTHER -> w

CapWord(w) ==
  CASE LowerWord(w) = "petrov" -> "Petrov"
    [] LowerWord(w) = "ivanov" -> "Ivanov"
    [] LowerWord(w) = "sidorov" -> "Sidorov"
    [] OTHER -> w

Range(s) == {s[i] : i \in 1..Len(s)}

\* str.isdigit(): not empty, decimal digits only
IsDigits(cs) == Len(cs) > 0 /\ Range(cs) \subseteq DigitChars

RECURSIVE DecVal(_)
DecVal(cs) ==
  IF cs = <<>> THEN 0 ELSE 10 * DecVal(SubSeq(cs, 1, Len(cs) - 1)) + DigitVal(cs[Len(cs)])

\* a token of letters and hyphens that starts with a letter
IsWord(tok) ==
  LET cs == Chars(tok) IN
    /\ Len(cs) > 0
    /\ cs[1] \in LowerChars \cup UpperChars
    /\ Range(cs) \subseteq LowerChars \cup UpperChars \cup DashChars

IsDash(tok) == Chars(tok) = <<"-">>

\* the characters of a whole text: tokens joined by " ", lines by "\n"
RECURSIVE JoinTokens(_)
JoinTokens(line) ==
  IF line = <<>> THEN <<>>
  ELSE IF Len(line) = 1 THEN Chars(line[1])
  ELSE Chars(line[1]) \o <<" ">> \o JoinTokens(Tail(line))

RECURSIVE TextChars(_)
TextChars(text) ==
  IF text = <<>> THEN <<>>
  ELSE IF Len(text) = 1 THEN JoinTokens(text[1])
  ELSE JoinTokens(text[1]) \o <<"\n">> \o TextChars(Tail(text))

\* --------------------------------------------------------------- the parser
MinOrderDigits == 3
MaxOrderDigits == 6

IsOrder(tok) ==
  LET cs == Chars(tok) IN
    IsDigits(cs) /\ Len(cs) >= MinOrderDigits /\ Len(cs) <= MaxOrderDigits

IsNameTok(tok) ==
  LET cs == Chars(tok) IN
    Len(cs) > 0 /\ Range(cs) \subseteq LowerChars \cup UpperChars \cup DashChars

\* the number of name tokens of a line: all tokens before the order code, less
\* one dash right before it (the lazy name group leaves it to the separator)
NameLen(line) ==
  LET n == Len(line) IN
    IF n >= 3 /\ IsDash(line[n - 1]) THEN n - 2 ELSE n - 1

\* re.match of the line grammar
LineMatches(line) ==
  LET n == Len(line) IN
    /\ n >= 2
    /\ IsOrder(line[n])
    /\ IsWord(line[1])
    /\ \A i \in 2..NameLen(line) : IsNameTok(line[i])

\* str.capitalize() of a name: first character upper, every other lower
capitalize(name) ==
  [i \in 1..Len(name) |-> IF i = 1 THEN CapWord(name[1]) ELSE LowerWord(name[i])]

ParseLine(line) ==
  [name |-> SubSeq(line, 1, NameLen(line)),
   surname |-> LowerWord(line[1]),
   order |-> line[Len(line)]]

RECURSIVE parse_delivery(_)
parse_delivery(text) ==
  IF text = <<>> THEN <<>>
  ELSE LET line == text[1] IN
    IF line # <<>> /\ LineMatches(line)
    THEN <<ParseLine(line)>> \o parse_delivery(Tail(text))
    ELSE parse_delivery(Tail(text))

\* -------------------------------------------------------- the route builder
FloorDefault == 99
RoomNumDefault == 99

\* room.split(".")[1]: the characters between the first and the second "."
RECURSIVE UpToDot(_)
UpToDot(cs) ==
  IF cs = <<>> \/ cs[1] = "." THEN <<>> ELSE <<cs[1]>> \o UpToDot(Tail(cs))

RECURSIVE AfterDot(_)
AfterDot(cs) ==
  IF cs = <<>> THEN <<>> ELSE IF cs[1] = "." THEN Tail(cs) ELSE AfterDot(Tail(cs))

HasDot(cs) == "." \in Range(cs)

SecondSegment(cs) == UpToDot(AfterDot(cs))

\* int() skips blanks around the digits
RECURSIVE StripLeft(_)
StripLeft(cs) ==
  IF cs # <<>> /\ cs[1] \in {" ", "\n"} THEN StripLeft(Tail(cs)) ELSE cs

RECURSIVE StripRight(_)
StripRight(cs) ==
  IF cs # <<>> /\ cs[Len(cs)] \in {" ", "\n"}
  THEN StripRight(SubSeq(cs, 1, Len(cs) - 1)) ELSE cs

Strip(cs) == StripRight(StripLeft(cs))

Has(d, k) == k \in DOMAIN d

\* the sort key of optimize_route
RoomNum(d) ==
  LET room == IF Has(d, "room") THEN d.room ELSE <<"9", "9", ".", "9", "9">>
      seg == Strip(SecondSegment(room))
  IN IF HasDot(room) /\ IsDigits(seg) THEN DecVal(seg) ELSE RoomNumDefault

\* int(room.split(".")[1]) succeeds
HasRoomNum(d) ==
  Has(d, "room") /\ HasDot(d.room) /\ IsDigits(Strip(SecondSegment(d.room)))

Floor(d) == IF Has(d, "floor") THEN d.floor ELSE FloorDefault

key(d) == <<Floor(d), RoomNum(d)>>

\* (a comparison that looks at the floor alone)
KeyLeqFloorOnly(k1, k2) == k1[1] <= k2[1]

\* tuple comparison: k1 <= k2
KeyLeq(k1, k2) == k1[1] < k2[1] \/ (k1[1] = k2[1] /\ k1[2] <= k2[2])

\* (an insertion that puts an element before the elements of equal key)
RECURSIVE InsertBeforeEqual(_, _)
InsertBeforeEqual(out, d) ==
  IF out = <<>> THEN <<d>>
  ELSE IF KeyLeq(key(out[Len(out)]), key(d)) /\ key(out[Len(out)]) # key(d) THEN Append(out, d)
  ELSE Append(InsertBeforeEqual(SubSeq(out, 1, Len(out) - 1), d), out[Len(out)])

\* sorted() is stable: an element goes after every element whose key is not
\* larger than its own
RECURSIVE InsertSorted(_, _)
InsertSorted(out, d) ==
  IF out = <<>> THEN <<d>>
  ELSE IF KeyLeq(key(out[Len(out)]), key(d)) THEN Append(out, d)
  ELSE Append(InsertSorted(SubSeq(out, 1, Len(out) - 1), d), out[Len(out)])

RECURSIVE SortFrom(_, _)
SortFrom(out, rest) ==
  IF rest = <<>> THEN out ELSE SortFrom(InsertSorted(out, rest[1]), Tail(rest))

optimize_route(deliveries) == SortFrom(<<>>, deliveries)

\* format_route: the floor banners, the numbered lines and the footer counts
\* d.get("floor", "?"): a floor, or -1 for the "?" of an entry without one
ShownFloor(d) == IF Has(d, "floor") THEN d.floor ELSE -1

RECURSIVE Banners(_, _)
Banners(deliveries, i) ==
  IF i > Len(deliveries) THEN <<>>
  ELSE IF i = 1 \/ ShownFloor(deliveries[i]) # ShownFloor(deliveries[i - 1])
       THEN <<ShownFloor(deliveries[i])>> \o Banners(deliveries, i + 1)
       ELSE Banners(deliveries, i + 1)

format_route(deliveries) ==
  [banners |-> Banners(deliveries, 1),
   lines |-> [i \in 1..Len(deliveries) |->
                [pos |-> i, name |-> deliveries[i].name,
                 room |-> deliveries[i].room, order |-> deliveries[i].order]],
   total |-> Len(deliveries),
   floors |-> Cardinality({ShownFloor(deliveries[i]) : i \in 1..Len(deliveries)})]

\* build_route_keyboard: one "done:<i>" button per entry, then "done:clear"
build_route_keyboard(deliveries) ==
  [marks |-> [i \in 1..Len(deliveries) |-> i - 1], clear |-> TRUE]

NoKeyboard == [marks |-> <<>>, clear |-> FALSE]
NoText == format_route(<<>>)

\* ---------------------------------------------------------------- the state
VARIABLES
  db,          \* employees.json: surname -> [full_name, floor, room]
  conv,        \* the ConversationHandler's state of each requester
  session,     \* user_data["session"] of each requester
  manual_add,  \* user_data["manual_add"] of each requester
  out,         \* the bot's latest message to each requester (sent or edited)
  dialog,      \* what each requester has answered since the bot's last question
  optIn,       \* a list handed to optimize_route on its own, and
  optOut,      \*   what it returned
  clsIn,       \* a parsed manifest and a directory handed to the
  clsDb,       \*   classification loop on their own, and
  clsOut       \*   the two buckets it built

vars == <<db, conv, session, manual_add, out, dialog, optIn, optOut, clsIn, clsDb, clsOut>>
botVars == <<db, conv, session, manual_add, out, dialog>>
fnVars == <<optIn, optOut, clsIn, clsDb, clsOut>>

Surnames == {"ivanov", "petrov"}

\* the text messages a requester may send: a manifest of order lines, a
\* one-line answer (a floor, a room, a surname), or a manifest with a line
\* that is no order
ManifestLines ==
  { <<"ivanov", "101">>, <<"Petrov", "-", "102">>, <<"ivanov", "102">> }

Answers == { <<<<"7">>>>, <<<<"7.47">>>>, <<<<"petrov">>>> }

Mixed == { <<<<"petrov">>, <<"Petrov", "-", "102">>, <<>>, <<"7.47">>>> }

Texts == UNION {[1..n -> ManifestLines] : n \in 1..MaxLines} \cup Answers \cup Mixed

\* a manifest of three lines for employees the directory may hold, out of
\* floor order, and a last line for one it never holds
Long ==
  { << <<"ivanov", "101">>, <<"Petrov", "-", "102">>, <<"ivanov", "102">>,
       <<"sidorov", "103">> >> }

\* the records employees.json may hold for a surname when the bot starts
StoredFor(s) ==
  IF s = "ivanov"
  THEN { [full_name |-> <<"Ivanov", "ivan">>, floor |-> 2, room |-> Chars("2.5")],
         [full_name |-> <<"Ivanov">>, floor |-> 1, room |-> Chars("1.12")] }
  ELSE { [full_name |-> <<"Petrov">>, floor |-> 1, room |-> Chars("1.5")],
         [floor |-> 1, room |-> Chars("1.5")] }

Directories ==
  UNION {{d \in [S -> UNION {StoredFor(s) : s \in S}] : \A s \in S : d[s] \in StoredFor(s)}
         : S \in SUBSET Surnames}

\* get_session / clear_session: the empty session (current: None is <<>>)
EmptySession == [deliveries |-> <<>>, pending |-> <<>>, current |-> <<>>]

NoDialog == [flow |-> "none", who |-> "", step |-> 0]

Message(kind, text, keyboard) == [kind |-> kind, text |-> text, keyboard |-> keyboard]

\* ------------------------------------------------------------- the dispatch
\* main(): the conversation's entry points are tried first when the requester
\* has no conversation or allow_reentry is set; the text entry point takes
\* every text message that is not a command
allow_reentry == TRUE

TextHandler(state) ==
  IF state = "NONE" \/ allow_reentry THEN "handle_text"
  ELSE IF state = "ASK_FLOOR" THEN "got_floor"
  ELSE "got_room"

\* ---------------------------------------------------------- classification
\* handle_text's loop over the parsed entries
Stamp(item, emp) ==
  [name |-> IF Has(emp, "full_name") THEN emp.full_name ELSE capitalize(item.name),
   surname |-> item.surname,
   order |-> item.order,
   floor |-> emp.floor,
   room |-> emp.room]

\* (a loop that puts each entry at the front of its bucket)
RECURSIVE ClassifyFromPrepend(_, _, _, _)
ClassifyFromPrepend(parsed, d, known, unknown) ==
  IF parsed = <<>> THEN [known |-> known, unknown |-> unknown]
  ELSE LET item == parsed[1] IN
    IF item.surname \in DOMAIN d
    THEN ClassifyFromPrepend(Tail(parsed), d, <<Stamp(item, d[item.surname])>> \o known, unknown)
    ELSE ClassifyFromPrepend(Tail(parsed), d, known, <<item>> \o unknown)

\* (a loop that keeps one entry per known surname)
RECURSIVE ClassifyFromOnePerSurname(_, _, _, _)
ClassifyFromOnePerSurname(parsed, d, known, unknown) ==
  IF parsed = <<>> THEN [known |-> known, unknown |-> unknown]
  ELSE LET item == parsed[1] IN
    IF item.surname \in DOMAIN d
    THEN IF \E i \in 1..Len(known) : known[i].surname = item.surname
         THEN ClassifyFromOnePerSurname(Tail(parsed), d, known, unknown)
         ELSE ClassifyFromOnePerSurname(Tail(parsed), d,
                                        Append(known, Stamp(item, d[item.surname])), unknown)
    ELSE ClassifyFromOnePerSurname(Tail(parsed), d, known, Append(unknown, item))

RECURSIVE ClassifyFrom(_, _, _, _)
ClassifyFrom(parsed, d, known, unknown) ==
  IF parsed = <<>> THEN [known |-> known, unknown |-> unknown]
  ELSE LET item == parsed[1] IN
    IF item.surname \in DOMAIN d
    THEN ClassifyFrom(Tail(parsed), d, Append(known, Stamp(item, d[item.surname])), unknown)
    ELSE ClassifyFrom(Tail(parsed), d, known, Append(unknown, item))

Classify(parsed, d) == ClassifyFrom(parsed, d, <<>>, <<>>)

\* ------------------------------------------------------------- the handlers
IsNumberText(text) == IsDigits(TextChars(text))

\* parse_delivery of every text a requester may send
Parsed == [t \in Texts \cup Long |-> parse_delivery(t)]

\* (a rejection that also empties the session)
ParseFailedDiscarding(u) ==
  /\ out' = [out EXCEPT ![u] = Message("bad_format", NoText, NoKeyboard)]
  /\ conv' = [conv EXCEPT ![u] = "NONE"]
  /\ session' = [session EXCEPT ![u] = EmptySession]
  /\ UNCHANGED <<db, manual_add>>

\* handle_text when no line matched: the error message, ConversationHandler.END
ParseFailed(u) ==
  /\ out' = [out EXCEPT ![u] = Message("bad_format", NoText, NoKeyboard)]
  /\ conv' = [conv EXCEPT ![u] = "NONE"]
  /\ UNCHANGED <<db, session, manual_add>>

handle_text(u, text) ==
  LET parsed == Parsed[text]
      c == Classify(parsed, db)
      route == optimize_route(c.known)
  IN IF parsed = <<>>
     THEN ParseFailed(u)
     ELSE IF c.unknown = <<>>
     THEN /\ session' = [session EXCEPT ![u] =
                           [deliveries |-> route, pending |-> <<>>, current |-> <<>>]]
          /\ out' = [out EXCEPT ![u] =
                       Message("route", format_route(route), build_route_keyboard(route))]
          /\ conv' = [conv EXCEPT ![u] = "NONE"]
          /\ UNCHANGED <<db, manual_add>>
     ELSE /\ session' = [session EXCEPT ![u] =
                           [deliveries |-> c.known,
                            pending |-> Tail(c.unknown),
                            current |-> <<c.unknown[1]>>]]
          /\ out' = [out EXCEPT ![u] = Message("ask_floor", NoText, NoKeyboard)]
          /\ conv' = [conv EXCEPT ![u] = "ASK_FLOOR"]
          /\ UNCHANGED <<db, manual_add>>

got_floor(u, text) ==
  IF ~IsNumberText(text)
  THEN /\ out' = [out EXCEPT ![u] = Message("need_number", NoText, NoKeyboard)]
       /\ UNCHANGED <<db, conv, session, manual_add>>
  ELSE IF session[u].current = <<>>
  THEN \* None["floor"] = ...: TypeError, the handler ends there
       UNCHANGED <<db, conv, session, manual_add, out>>
  ELSE /\ session' = [session EXCEPT ![u].current =
                        <<[k \in DOMAIN @[1] \cup {"floor"} |->
                             IF k = "floor" THEN DecVal(TextChars(text)) ELSE @[1][k]]>>]
       /\ out' = [out EXCEPT ![u] = Message("ask_room", NoText, NoKeyboard)]
       /\ conv' = [conv EXCEPT ![u] = "ASK_ROOM"]
       /\ UNCHANGED <<db, manual_add>>

got_room(u, text) ==
  LET room == TextChars(text)
      cur == session[u].current
      item == [k \in DOMAIN cur[1] \cup {"room"} |-> IF k = "room" THEN room ELSE cur[1][k]]
      entry == [name |-> capitalize(item.name), surname |-> item.surname,
                order |-> item.order, floor |-> item.floor, room |-> room]
      deliveries == Append(session[u].deliveries, entry)
      route == optimize_route(deliveries)
  IN IF cur = <<>>
     THEN \* None["room"] = ...: TypeError, the handler ends there
          UNCHANGED <<db, conv, session, manual_add, out>>
     ELSE IF ~Has(item, "floor")
     THEN \* item["floor"]: KeyError, after the room was stored on the entry
          /\ session' = [session EXCEPT ![u].current = <<item>>]
          /\ UNCHANGED <<db, conv, manual_add, out>>
     ELSE /\ db' = [s \in DOMAIN db \cup {item.surname} |->
                      IF s = item.surname
                      THEN [full_name |-> capitalize(item.name),
                            floor |-> item.floor, room |-> room]
                      ELSE db[s]]
          /\ UNCHANGED manual_add
          /\ IF session[u].pending # <<>>
             THEN /\ session' = [session EXCEPT ![u] =
                                   [deliveries |-> deliveries,
                                    pending |-> Tail(session[u].pending),
                                    current |-> <<session[u].pending[1]>>]]
                  /\ out' = [out EXCEPT ![u] = Message("ask_next", NoText, NoKeyboard)]
                  /\ conv' = [conv EXCEPT ![u] = "ASK_FLOOR"]
             ELSE /\ session' = [session EXCEPT ![u] =
                                   [deliveries |-> route,
                                    pending |-> <<>>,
                                    current |-> <<item>>]]
                  /\ out' = [out EXCEPT ![u] =
                               Message("route", format_route(route), build_route_keyboard(route))]
                  /\ conv' = [conv EXCEPT ![u] = "NONE"]

\* a text message that is not a command: the conversation picks the handler
ReceiveText(u, text) ==
  LET h == TextHandler(conv[u]) IN
    /\ IF h = "handle_text" THEN handle_text(u, text)
       ELSE IF h = "got_floor" THEN got_floor(u, text)
       ELSE got_room(u, text)
    /\ UNCHANGED fnVars

\* /clear: the application's own handler comes before the conversation's
\* fallback, and either way the callback returns no new conversation state
cmd_clear(u) ==
  /\ session' = [session EXCEPT ![u] = EmptySession]
  /\ out' = [out EXCEPT ![u] = Message("cleared", NoText, NoKeyboard)]
  /\ UNCHANGED <<db, conv, manual_add>>
  /\ UNCHANGED fnVars

\* /add: an entry point of the conversation
cmd_add(u) ==
  /\ conv[u] = "NONE" \/ allow_reentry
  /\ manual_add' = [manual_add EXCEPT ![u] = TRUE]
  /\ conv' = [conv EXCEPT ![u] = "ASK_FLOOR"]
  /\ out' = [out EXCEPT ![u] = Message("ask_surname", NoText, NoKeyboard)]
  /\ UNCHANGED <<db, session>>
  /\ UNCHANGED fnVars

\* list.pop(idx): a negative index counts from the end
PopAt(len, idx) == IF idx < 0 THEN idx + len ELSE idx

\* (a pop that ignores its index and takes the last element)
RemoveLast(list, at) == SubSeq(list, 1, Len(list) - 1)

Remove(list, at) == SubSeq(list, 1, at) \o SubSeq(list, at + 2, Len(list))

\* the "done:clear" button
cb_done_clear(u) ==
  /\ session' = [session EXCEPT ![u] = EmptySession]
  /\ out' = [out EXCEPT ![u] = Message("cleared", NoText, NoKeyboard)]
  /\ UNCHANGED <<db, conv, manual_add>>
  /\ UNCHANGED fnVars

\* a "done:<idx>" button
cb_done(u, idx) ==
  LET deliveries == session[u].deliveries
      at == PopAt(Len(deliveries), idx)
      rest == Remove(deliveries, at)
  IN /\ IF idx >= Len(deliveries)
        THEN UNCHANGED <<session, out>>
        ELSE IF at < 0
        THEN \* pop index out of range: IndexError, the handler ends there
             UNCHANGED <<session, out>>
        ELSE IF rest = <<>>
        THEN /\ session' = [session EXCEPT ![u] = EmptySession]
             /\ out' = [out EXCEPT ![u] = Message("all_done", NoText, NoKeyboard)]
        ELSE /\ session' = [session EXCEPT ![u].deliveries = rest]
             /\ out' = [out EXCEPT ![u] =
                          Message("done", format_route(rest), build_route_keyboard(rest))]
     /\ UNCHANGED <<db, conv, manual_add>>
     /\ UNCHANGED fnVars

\* (a delete that also strikes the employee's entries from every session)
cb_deleteStriking(u, surname) ==
  /\ IF surname \in DOMAIN db
     THEN /\ db' = [s \in DOMAIN db \ {surname} |-> db[s]]
          /\ out' = [out EXCEPT ![u] = Message("deleted", NoText, NoKeyboard)]
     ELSE /\ db' = db
          /\ out' = [out EXCEPT ![u] = Message("not_found", NoText, NoKeyboard)]
  /\ session' = [v \in Users |->
                   [session[v] EXCEPT !.deliveries =
                      SelectSeq(@, LAMBDA d : d.surname # surname)]]
  /\ UNCHANGED <<conv, manual_add>>
  /\ UNCHANGED fnVars

\* a "del:<surname>" button
cb_delete(u, surname) ==
  /\ IF surname \in DOMAIN db
     THEN /\ db' = [s \in DOMAIN db \ {surname} |-> db[s]]
          /\ out' = [out EXCEPT ![u] = Message("deleted", NoText, NoKeyboard)]
     ELSE /\ db' = db
          /\ out' = [out EXCEPT ![u] = Message("not_found", NoText, NoKeyboard)]
  /\ UNCHANGED <<conv, session, manual_add>>
  /\ UNCHANGED fnVars

\* an interview is in progress: the bot has asked for the floor or the room
\* of session.current
InInterview(u) == conv[u] \in {"ASK_FLOOR", "ASK_ROOM"} /\ session[u].current # <<>>

\* ---------------------------------------------------------- specification
Init ==
  /\ db \in Directories
  /\ conv = [u \in Users |-> "NONE"]
  /\ session = [u \in Users |-> EmptySession]
  /\ manual_add = [u \in Users |-> FALSE]
  /\ out = [u \in Users |-> Message("none", NoText, NoKeyboard)]
  /\ dialog = [u \in Users |-> NoDialog]
  /\ optIn = <<>>
  /\ optOut = <<>>
  /\ clsIn = <<>>
  /\ clsDb = <<>>
  /\ clsOut = [known |-> <<>>, unknown |-> <<>>]

Next ==
  \/ \E u \in SessionUsers, text \in Texts : ReceiveText(u, text) /\ UNCHANGED dialog
  \/ \E u \in SessionUsers : cmd_clear(u) /\ UNCHANGED dialog
  \/ \E u \in SessionUsers : cmd_add(u) /\ UNCHANGED dialog
  \/ \E u \in SessionUsers : cb_done_clear(u) /\ UNCHANGED dialog
  \/ \E u \in SessionUsers, idx \in (0 - MaxIdx)..MaxIdx : cb_done(u, idx) /\ UNCHANGED dialog
  \/ \E u \in SessionUsers, surname \in Surnames : cb_delete(u, surname) /\ UNCHANGED dialog

Spec == Init /\ [][Next]_vars

\* ------------------------------------------- the requester's side of a dialog
\* What the requester has answered since the bot last asked for a floor
\* (interview: floor, room) or since /add (manual add: surname, floor, room).
Asked(item) == [flow |-> "interview", who |-> item.surname, step |-> 0]

Answered(d, text) ==
  IF d.flow = "manual" /\ d.step = 0 /\ Len(text) = 1 /\ Len(text[1]) = 1 /\ IsWord(text[1][1])
  THEN [flow |-> "manual", who |-> LowerWord(text[1][1]), step |-> 1]
  ELSE IF (d.flow = "manual" /\ d.step = 1) \/ (d.flow = "interview" /\ d.step = 0)
  THEN IF IsNumberText(text) THEN [d EXCEPT !.step = @ + 1] ELSE NoDialog
  ELSE IF (d.flow = "manual" /\ d.step = 2) \/ (d.flow = "interview" /\ d.step = 1)
  THEN IF Parsed[text] = <<>> THEN [d EXCEPT !.step = @ + 1] ELSE NoDialog
  ELSE NoDialog

TextInDialog(u, text) ==
  /\ ReceiveText(u, text)
  /\ dialog' = [dialog EXCEPT ![u] =
                  IF out'[u].kind \in {"ask_floor", "ask_next"}
                  THEN Asked(session'[u].current[1])
                  ELSE Answered(@, text)]

ClearInDialog(u) ==
  /\ cmd_clear(u)
  /\ dialog' = [dialog EXCEPT ![u] = NoDialog]

ClearButtonInDialog(u) ==
  /\ cb_done_clear(u)
  /\ dialog' = [dialog EXCEPT ![u] = NoDialog]

AddInDialog(u) ==
  /\ cmd_add(u)
  /\ dialog' = [dialog EXCEPT ![u] = [flow |-> "manual", who |-> "", step |-> 0]]

NextDialog ==
  \/ \E u \in SessionUsers, text \in Texts : TextInDialog(u, text)
  \/ \E u \in SessionUsers : ClearInDialog(u)
  \/ \E u \in SessionUsers : AddInDialog(u)
  \/ \E u \in SessionUsers : ClearButtonInDialog(u)
  \/ \E u \in SessionUsers, idx \in (0 - MaxIdx)..MaxIdx : cb_done(u, idx) /\ UNCHANGED dialog
  \/ \E u \in SessionUsers, surname \in Surnames : cb_delete(u, surname) /\ UNCHANGED dialog

SpecDialog == Init /\ [][NextDialog]_vars

\* ------------------------------------------------ two requesters, one directory
\* u1 sends manifests and presses the buttons of its routes; u1 and u2 both
\* press delete buttons.  Each handler runs from its directory load to its
\* directory save without an await, so a handler is one step.
SharedTexts ==
  { << <<"ivanov", "101">> >>,
    << <<"Petrov", "-", "102">>, <<"ivanov", "102">> >>,
    << <<"ivanov", "101">>, <<"Petrov", "-", "102">>, <<"ivanov", "102">> >>,
    << <<"7">> >> } \cup Long

NextShared ==
  \/ \E text \in SharedTexts : ReceiveText("u1", text) /\ UNCHANGED dialog
  \/ \E idx \in (0 - MaxIdx)..MaxIdx : cb_done("u1", idx) /\ UNCHANGED dialog
  \/ \E u \in Users, surname \in Surnames : cb_delete(u, surname) /\ UNCHANGED dialog

SpecShared == Init /\ [][NextShared]_vars

\* ------------------------------------- optimize_route and the classification
\* on their own, applied to inputs drawn from bounded sets
Entry(name, surname, order, floor, room) ==
  [name |-> <<name>>, surname |-> surname, order |-> order, floor |-> floor, room |-> Chars(room)]

RouteEntries ==
  { Entry("Ivanov", "ivanov", "101", 1, "1.5"),
    Entry("Petrov", "petrov", "102", 1, "1.5"),
    Entry("Ivanov", "ivanov", "102", 1, "1.12"),
    Entry("Petrov", "petrov", "101", 2, "2.x"),
    Entry("Ivanov", "ivanov", "101", 2, "2.5"),
    Entry("Ivanov", "ivanov", "102", 2, "2.100"),
    Entry("Petrov", "petrov", "102", 100, "1.100"),
    [name |-> <<"ivanov">>, surname |-> "ivanov", order |-> "102"] }

RouteInputs == UNION {[1..n -> RouteEntries] : n \in 0..MaxRoute}

ParsedItems == {ParseLine(line) : line \in ManifestLines}

ManifestInputs == UNION {[1..n -> ParsedItems] : n \in 1..MaxManifest}

\* each run applies one of the two, once
Idle == optIn = <<>> /\ clsIn = <<>>

ApplyOptimize(x) ==
  /\ Idle
  /\ optIn' = x
  /\ optOut' = optimize_route(x)
  /\ UNCHANGED <<clsIn, clsDb, clsOut>>
  /\ UNCHANGED botVars

ApplyClassify(parsed, d) ==
  /\ Idle
  /\ clsIn' = parsed
  /\ clsDb' = d
  /\ clsOut' = Classify(parsed, d)
  /\ UNCHANGED <<optIn, optOut>>
  /\ UNCHANGED botVars

NextFn ==
  \/ \E x \in RouteInputs : ApplyOptimize(x)
  \/ \E parsed \in ManifestInputs, d \in Directories : ApplyClassify(parsed, d)

InitFn == Init /\ db = [s \in {} |-> s]

SpecFn == InitFn /\ [][NextFn]_vars

\* =================================================================== claims

\* C1: a clear event (/clear or the clear-all button), in any state, leaves
\* the requester in COLLECTING (no conversation state) with empty deliveries,
\* pending and current.
C1_ClearResets ==
  [][\A u \in SessionUsers :
       (cmd_clear(u) \/ cb_done_clear(u)) =>
         (conv'[u] = "NONE" /\ session'[u] = EmptySession)]_vars

C3_InterviewMakesKnown ==
  [][\A u \in SessionUsers, text \in Answers :
       (/\ dialog[u].flow = "interview"
        /\ dialog[u].step = 1
        /\ TextInDialog(u, text)
        /\ dialog'[u].step = 2) =>
         dialog[u].who \in DOMAIN db']_vars

\* C4: /add, then a surname, a floor and a room, writes a directory entry
\* under the typed surname, leaves the deliveries alone and shows no route.
C4_ManualAddWrites ==
  [][\A u \in SessionUsers, text \in Answers :
       (/\ dialog[u].flow = "manual"
        /\ dialog[u].step = 2
        /\ TextInDialog(u, text)
        /\ dialog'[u].step = 3) =>
         /\ dialog[u].who \in DOMAIN db'
         /\ session'[u].deliveries = session[u].deliveries
         /\ out'[u].kind \notin {"route", "done"}]_vars

\* C5: a mark-delivered action whose index is outside [0, len(route)),
\* negative or too large, changes neither the deliveries nor the displayed
\* message and its action list.
C5_OutOfRangeNoOp ==
  [][\A u \in SessionUsers, idx \in (0 - MaxIdx)..MaxIdx :
       (cb_done(u, idx) /\ (idx < 0 \/ idx >= Len(session[u].deliveries))) =>
         (session'[u] = session[u] /\ out'[u] = out[u])]_vars

\* C6: a mark-delivered action on the only remaining entry empties the route
\* and resets the session to COLLECTING with empty deliveries, pending and
\* current.
C6_LastMarkResets ==
  [][\A u \in SessionUsers :
       (cb_done(u, 0) /\ Len(session[u].deliveries) = 1) =>
         (session'[u] = EmptySession /\ conv'[u] = "NONE")]_vars

\* C7: a mark-delivered action with index i in [0, len) on a route of two or
\* more entries removes exactly the entry at position i, keeps the others in
\* their order, and shows the actions 0..len-2 and one clear action.
C7_MarkRemovesOne ==
  [][\A u \in SessionUsers, i \in 0..MaxIdx :
       LET old == session[u].deliveries
           new == session'[u].deliveries
       IN (cb_done(u, i) /\ i < Len(old) /\ Len(old) >= 2) =>
            /\ Len(new) = Len(old) - 1
            /\ \A j \in 1..Len(new) : new[j] = IF j <= i THEN old[j] ELSE old[j + 1]
            /\ out'[u].keyboard.marks = [j \in 1..(Len(old) - 1) |-> j - 1]
            /\ out'[u].keyboard.clear
            /\ out'[u].text.lines = format_route(new).lines]_vars

\* an entry was marked and two or more are left on display
C7_Witness ==
  \E u \in SessionUsers :
    /\ out[u].kind = "done"
    /\ Len(session[u].deliveries) >= 2
    /\ Len(out[u].keyboard.marks) = Len(session[u].deliveries)

\* C8: optimize_route returns a permutation of its input, ordered by floor
\* ascending and then by the integer after the first "." of the room label,
\* and entries with the same (floor, room number) key keep their input order.
C8_OptimizeSortedStable ==
  /\ Len(optOut) = Len(optIn)
  /\ \A i, j \in 1..Len(optOut) :
       i < j =>
         \/ Floor(optOut[i]) < Floor(optOut[j])
         \/ /\ Floor(optOut[i]) = Floor(optOut[j])
            /\ RoomNum(optOut[i]) <= RoomNum(optOut[j])
  /\ \A n \in 1..Len(optIn) :
       SelectSeq(optOut, LAMBDA d : key(d) = key(optIn[n]))
         = SelectSeq(optIn, LAMBDA d : key(d) = key(optIn[n]))

\* a sorted list that differs from its input and holds two different entries
\* of one key
C8_Witness ==
  /\ optOut # optIn
  /\ \E i, j \in 1..Len(optOut) :
       i < j /\ key(optOut[i]) = key(optOut[j]) /\ optOut[i] # optOut[j]

\* C9: optimize_route is idempotent: sorting its own result again changes
\* nothing.
C9_OptimizeIdempotent == optimize_route(optOut) = optOut

\* a result of three entries that the sort had to reorder, two of them of one
\* key
C9_Witness ==
  /\ Len(optOut) >= 3
  /\ optOut # optIn
  /\ \E i \in 1..Len(optOut) - 1 :
       key(optOut[i]) = key(optOut[i + 1]) /\ optOut[i] # optOut[i + 1]

\* C10: the classification puts every parsed entry into exactly one bucket,
\* known when its surname is in the directory and unknown when not, and each
\* bucket keeps the manifest's order.
C10_ClassifyPartitions ==
  LET InDir(e) == e.surname \in DOMAIN clsDb
      NotInDir(e) == e.surname \notin DOMAIN clsDb
      Ids(list) == [i \in 1..Len(list) |-> <<list[i].surname, list[i].order>>]
  IN /\ Ids(clsOut.known) = Ids(SelectSeq(clsIn, InDir))
     /\ clsOut.unknown = SelectSeq(clsIn, NotInDir)
     /\ Len(clsOut.known) + Len(clsOut.unknown) = Len(clsIn)

\* a manifest with two different known entries and an unknown one
C10_Witness ==
  /\ Len(clsOut.known) >= 2
  /\ clsOut.known[1].order # clsOut.known[2].order
  /\ Len(clsOut.unknown) >= 1

\* C11: a step that changes the directory, whoever the requester, leaves the
\* deliveries of every session (their floors and rooms with them) as they
\* were.
C11_DirectoryEditKeepsEntries ==
  [][db' # db =>
       \A v \in Users : session'[v].deliveries = session[v].deliveries]_vars

\* u2 has deleted an employee whose entry, with the floor and room it was
\* stamped with, is still in u1's session
C11_Witness ==
  /\ out["u2"].kind = "deleted"
  /\ \E i \in 1..Len(session["u1"].deliveries) :
       LET d == session["u1"].deliveries[i] IN
         d.surname \notin DOMAIN db /\ Has(d, "floor") /\ Has(d, "room")

\* C12: while the bot waits for a floor, a text that is not a non-negative
\* integer gets the prompt again: the state stays INTERVIEW_FLOOR and current,
\* pending, deliveries and the directory are unchanged.
C12_InvalidFloorReprompts ==
  [][\A u \in SessionUsers, text \in Answers :
       (/\ conv[u] = "ASK_FLOOR" /\ InInterview(u)
        /\ ~IsNumberText(text)
        /\ ReceiveText(u, text)) =>
         /\ conv'[u] = "ASK_FLOOR"
         /\ out'[u].kind = "need_number"
         /\ session'[u] = session[u]
         /\ db' = db]_vars

\* C13: while the bot waits for a floor, a text that is a non-negative integer
\* is stored as current.floor and the state becomes INTERVIEW_ROOM; pending,
\* deliveries and the directory are unchanged.
C13_FloorInputConsumed ==
  [][\A u \in SessionUsers, text \in Answers :
       (/\ conv[u] = "ASK_FLOOR" /\ InInterview(u)
        /\ IsNumberText(text)
        /\ ReceiveText(u, text)) =>
         /\ conv'[u] = "ASK_ROOM"
         /\ session'[u].current # <<>>
         /\ Has(session'[u].current[1], "floor")
         /\ session'[u].current[1].floor = DecVal(TextChars(text))
         /\ session'[u].pending = session[u].pending
         /\ session'[u].deliveries = session[u].deliveries
         /\ db' = db]_vars

\* C14: during an interview a mark-delivered action, a delete-employee
\* action, /add or a text that is no valid answer leaves current and pending
\* as they are and does not end the interview.
C14_InterviewPersists ==
  [][\A u \in SessionUsers :
       (/\ InInterview(u)
        /\ \/ \E idx \in (0 - MaxIdx)..MaxIdx : cb_done(u, idx)
           \/ \E surname \in Surnames : cb_delete(u, surname)
           \/ cmd_add(u)
           \/ \E text \in Answers :
                /\ ~IsNumberText(text) /\ conv[u] = "ASK_FLOOR"
                /\ ReceiveText(u, text)) =>
         /\ session'[u].current = session[u].current
         /\ session'[u].pending = session[u].pending
         /\ conv'[u] \in {"ASK_FLOOR", "ASK_ROOM"}]_vars

\* C16: in the result of optimize_route an entry whose room has no number
\* after its first "." comes after every entry of its floor that has one, and
\* an entry without a floor comes after every entry with a floor.
C16_SentinelSortsLast ==
  \A i, j \in 1..Len(optOut) :
    /\ (/\ Has(optOut[i], "floor") /\ Has(optOut[j], "floor")
        /\ optOut[i].floor = optOut[j].floor
        /\ ~HasRoomNum(optOut[i]) /\ HasRoomNum(optOut[j])) => j < i
    /\ (~Has(optOut[i], "floor") /\ Has(optOut[j], "floor")) => j < i

\* C17: the unknown entries are asked about in manifest order: when the
\* requester has answered the floor and then the room of the entry asked
\* about, either the head of pending becomes current and pending loses it, or
\* pending was empty and the route is shown (ROUTE_READY).
C17_RoomInputAdvances ==
  [][\A u \in SessionUsers, text \in Answers :
       (/\ dialog[u].flow = "interview"
        /\ dialog[u].step = 1
        /\ TextInDialog(u, text)
        /\ dialog'[u].step = 2) =>
         IF session[u].pending # <<>>
         THEN /\ session'[u].current = <<Head(session[u].pending)>>
              /\ session'[u].pending = Tail(session[u].pending)
              /\ conv'[u] = "ASK_FLOOR"
         ELSE /\ session'[u].pending = <<>>
              /\ out'[u].kind = "route"
              /\ conv'[u] = "NONE"]_vars

\* C18: a route on display (after a manifest or after a mark-delivered
\* action) shows the session's deliveries in optimize order: the floors of
\* its banners ascend, there is one banner per distinct floor, and sorting
\* the displayed list again would change nothing.
C18_RenderedRouteSorted ==
  \A u \in SessionUsers :
    out[u].kind \in {"route", "done"} =>
      LET t == out[u].text IN
        /\ t.lines = format_route(session[u].deliveries).lines
        /\ optimize_route(session[u].deliveries) = session[u].deliveries
        /\ \A i \in 1..(Len(t.banners) - 1) : t.banners[i] < t.banners[i + 1]
        /\ Len(t.banners) = t.floors

\* C19: whenever the conversation waits for a floor or a room, session.current
\* holds an entry, and while it waits for a room that entry has its floor.
C19_CurrentSetInInterview ==
  \A u \in SessionUsers :
    conv[u] \in {"ASK_FLOOR", "ASK_ROOM"} =>
      /\ session[u].current # <<>>
      /\ conv[u] = "ASK_ROOM" => Has(session[u].current[1], "floor")

\* C20: when a manifest brings the session to ROUTE_READY, the route holds
\* every parsed entry of the manifest exactly once: the same (surname, order)
\* pairs, each as often as the manifest has it.
C20_RouteHoldsManifest ==
  [][\A text \in SharedTexts :
       (ReceiveText("u1", text) /\ out'["u1"].kind = "route") =>
         LET parsed == Parsed[text]
             route == session'["u1"].deliveries
             Id(e) == <<e.surname, e.order>>
             Count(list, id) == Cardinality({i \in 1..Len(list) : Id(list[i]) = id})
         IN /\ Len(route) = Len(parsed)
            /\ \A n \in 1..Len(parsed) :
                 Count(route, Id(parsed[n])) = Count(parsed, Id(parsed[n]))]_vars

\* a route on display that holds two parcels of one employee and a third
\* entry
C20_Witness ==
  LET route == session["u1"].deliveries IN
    /\ out["u1"].kind = "route"
    /\ Len(route) >= 3
    /\ \E i, j \in 1..Len(route) :
         i < j /\ route[i].surname = route[j].surname /\ route[i].order # route[j].order

====
